---- MODULE Spec2Model ----
(***************************************************************************)
(* Model of the bump allocator of crates/allocator/src/bump.rs.            *)
(*                                                                         *)
(* The allocator state is InnerAlloc {next, upper_limit}.  Its only        *)
(* mutating operation is InnerAlloc::alloc, which either bumps `next`      *)
(* inside the current headroom or asks the page source for fresh pages.    *)
(* The page source is selected at build time (cfg_if): the test stub that  *)
(* returns the current upper_limit, or the wasm32 memory_grow primitive.   *)
(* Addresses are usize; the width is scaled down to AddrBits bits so that  *)
(* the overflow branches of the checked arithmetic are reachable.          *)
(***************************************************************************)
EXTENDS Integers, Sequences, FiniteSets, TLC

\* ---------------------------------------------------------------- bounds
\* width of usize in bits (scaled down from 32 on wasm32)
AddrBits == 18
\* number of successful allocations recorded in the history
MaxAllocs == 3
\* wasm32: pages of linear memory present before the first allocation
MaxInitPages == 1
\* required_pages is probed within MaxProbe bytes of each boundary
MaxProbe == 16

\* ------------------------------------------------------------- constants
PAGE_SIZE == 64 * 1024

USIZE_MAX == 2^AddrBits - 1

\* Option::None; Some(x) is the natural number x
None == -1

\* wasm32 linear memory holds at most 2^w / PAGE_SIZE pages
MaxHostPages == (USIZE_MAX + 1) \div PAGE_SIZE

\* ------------------------------------------------- checked usize arithmetic
\* slip: wrapping_add in place of checked_add
checked_add_wrapping(a, b) ==
    IF a + b > USIZE_MAX THEN (a + b) % (USIZE_MAX + 1) ELSE a + b

checked_add(a, b) == IF a + b > USIZE_MAX THEN None ELSE a + b

checked_mul(a, b) == IF a * b > USIZE_MAX THEN None ELSE a * b

checked_div(a, b) == IF b = 0 THEN None ELSE a \div b

\* ------------------------------------------------------------------ Layout
\* slip: always rounds past the size, so a multiple of align gains an align
PadToAlign_past(size, align) == (size \div align + 1) * align

\* Layout::pad_to_align().size(): size rounded up to a multiple of align
PadToAlign(size, align) == ((size + align - 1) \div align) * align

\* the request sizes of the tests: (), u8, u16, [u8; PAGE_SIZE - 1],
\* [u8; 2 * PAGE_SIZE], and the smallest n for which n + PAGE_SIZE - 1
\* overflows (fuzz_should_not_allocate_if_it_overflows)
Sizes ==
    {0, 1, 2, PAGE_SIZE - 1, 2 * PAGE_SIZE, USIZE_MAX - PAGE_SIZE + 2}

\* the alignments of u8 and u16
Aligns == {1, 2}

\* Layout::from_size_align succeeds only when the padded size fits in usize
Layouts ==
    {l \in [size : Sizes, align : Aligns] :
        PadToAlign(l.size, l.align) <= USIZE_MAX}

\* ------------------------------------------------------------ required_pages
\* slip: rounds down
required_pages_floor(size) == checked_div(size, PAGE_SIZE)

\* slip: size / PAGE_SIZE + 1 as the round-up
required_pages_plus_one(size) ==
    LET num == checked_add(size, PAGE_SIZE - 1)
    IN  IF num = None THEN None ELSE checked_div(size, PAGE_SIZE) + 1

\* slip: wrapping_add in the round-up
required_pages_wrapping(size) ==
    checked_div((size + PAGE_SIZE - 1) % (USIZE_MAX + 1), PAGE_SIZE)

required_pages(size) ==
    LET num == checked_add(size, PAGE_SIZE - 1)
    IN  IF num = None THEN None ELSE checked_div(num, PAGE_SIZE)

\* -------------------------------------------------------------- page source
\* core::arch::wasm32::memory_grow(0, pages): the previous size in pages and
\* the memory grown, or usize::MAX and the memory untouched.  `grant` is the
\* host's decision (resource limit).
memory_grow(mem, pages, grant) ==
    IF grant /\ mem + pages <= MaxHostPages
    THEN [ret |-> mem, mem |-> mem + pages]
    ELSE [ret |-> USIZE_MAX, mem |-> mem]

\* slip: the stub hands out the cursor instead of the high-water mark
request_pages_test_next(self, mem, pages) ==
    [ret |-> self.next, mem |-> mem]

\* #[cfg(test)] request_pages
request_pages_test(self, mem, pages) ==
    [ret |-> self.upper_limit, mem |-> mem]

\* #[cfg(target_arch = "wasm32")] request_pages
request_pages_wasm32(mem, pages, grant) ==
    LET g == memory_grow(mem, pages, grant)
    IN  IF g.ret = USIZE_MAX
        THEN [ret |-> None, mem |-> g.mem]
        ELSE [ret |-> checked_mul(g.ret, PAGE_SIZE), mem |-> g.mem]

\* cfg_if selection of request_pages
request_pages(build, self, mem, pages, grant) ==
    IF build = "test"
    THEN request_pages_test(self, mem, pages)
    ELSE request_pages_wasm32(mem, pages, grant)

\* ------------------------------------------------------- InnerAlloc::alloc
\* result of one call: the returned Option, the fields of self afterwards,
\* the host memory afterwards and what the call did on the way
Out(ret, nx, ul, mem, path, calls, pages, page_ret) ==
    [ret |-> ret, next |-> nx, upper_limit |-> ul, mem |-> mem,
     path |-> path, page_calls |-> calls, pages |-> pages,
     page_ret |-> page_ret]

\* slip: returns the bumped cursor
alloc_fit_returns_end(self, mem, alloc_start, alloc_end) ==
    Out(alloc_end, alloc_end, self.upper_limit, mem, "fit", 0, None, None)

\* slip: the cursor is not bumped
alloc_fit_no_bump(self, mem, alloc_start, alloc_end) ==
    Out(alloc_start, alloc_start, self.upper_limit, mem, "fit", 0, None, None)

\* else branch: the request fits the current headroom
alloc_fit(self, mem, alloc_start, alloc_end) ==
    Out(alloc_start, alloc_end, self.upper_limit, mem, "fit", 0, None, None)

\* slip: upper_limit is advanced before the page source's answer is looked at
no_region_limit_advanced(self, mem, required) ==
    Out(None, self.next, self.upper_limit + required * PAGE_SIZE, mem,
        "grow", 1, required, None)

\* `self.request_pages(required_pages)?` when the answer is None
no_region(self, mem, required) ==
    Out(None, self.next, self.upper_limit, mem, "grow", 1, required, None)

\* slip: the allocation continues at the old cursor into the new pages
grow_commit_straddle(self, mem, aligned_size, required, page_start) ==
    LET pages == checked_mul(required, PAGE_SIZE)
        ul == IF pages = None THEN None ELSE checked_add(page_start, pages)
    IN  IF ul = None
        THEN Out(None, self.next, self.upper_limit, mem,
                 "grow", 1, required, page_start)
        ELSE
          LET nx == checked_add(self.next, aligned_size)
          IN  IF nx = None
              THEN Out(None, self.next, ul, mem,
                       "grow", 1, required, page_start)
              ELSE Out(self.next, nx, ul, mem,
                       "grow", 1, required, page_start)

\* slip: the limit is put at the end of the request, not of its pages
grow_commit_limit_unrounded(self, mem, aligned_size, required, page_start) ==
    LET ul == checked_add(page_start, aligned_size)
    IN  IF ul = None
        THEN Out(None, self.next, self.upper_limit, mem,
                 "grow", 1, required, page_start)
        ELSE Out(page_start, ul, ul, mem, "grow", 1, required, page_start)

\* the assignments to upper_limit and next once the pages are granted; each
\* `?` returns before its own assignment, after the earlier one
grow_commit(self, mem, aligned_size, required, page_start) ==
    LET pages == checked_mul(required, PAGE_SIZE)
        ul == IF pages = None THEN None ELSE checked_add(page_start, pages)
    IN  IF ul = None
        THEN Out(None, self.next, self.upper_limit, mem,
                 "grow", 1, required, page_start)
        ELSE
          LET nx == checked_add(page_start, aligned_size)
          IN  IF nx = None
              THEN Out(None, self.next, ul, mem,
                       "grow", 1, required, page_start)
              ELSE Out(page_start, nx, ul, mem,
                       "grow", 1, required, page_start)

\* then branch: alloc_end > self.upper_limit
alloc_grow(build, self, mem, aligned_size, grant) ==
    LET required == required_pages(aligned_size)
    IN  IF required = None
        THEN Out(None, self.next, self.upper_limit, mem, "grow", 0, None, None)
        ELSE
          LET rq == request_pages(build, self, mem, required, grant)
          IN  IF rq.ret = None
              THEN no_region(self, rq.mem, required)
              ELSE grow_commit(self, rq.mem, aligned_size, required, rq.ret)

\* slip: the cursor, not the end of the request, is compared with the limit
alloc_cmp_start(build, self, mem, layout, grant) ==
    LET alloc_start == self.next
        aligned_size == PadToAlign(layout.size, layout.align)
        alloc_end == checked_add(alloc_start, aligned_size)
    IN  IF alloc_end = None
        THEN Out(None, self.next, self.upper_limit, mem, "none", 0, None, None)
        ELSE IF alloc_start > self.upper_limit
             THEN alloc_grow(build, self, mem, aligned_size, grant)
             ELSE alloc_fit(self, mem, alloc_start, alloc_end)

\* slip: >= in the comparison with the limit
alloc_cmp_ge(build, self, mem, layout, grant) ==
    LET alloc_start == self.next
        aligned_size == PadToAlign(layout.size, layout.align)
        alloc_end == checked_add(alloc_start, aligned_size)
    IN  IF alloc_end = None
        THEN Out(None, self.next, self.upper_limit, mem, "none", 0, None, None)
        ELSE IF alloc_end >= self.upper_limit
             THEN alloc_grow(build, self, mem, aligned_size, grant)
             ELSE alloc_fit(self, mem, alloc_start, alloc_end)

alloc(build, self, mem, layout, grant) ==
    LET alloc_start == self.next
        aligned_size == PadToAlign(layout.size, layout.align)
        alloc_end == checked_add(alloc_start, aligned_size)
    IN  IF alloc_end = None
        THEN Out(None, self.next, self.upper_limit, mem, "none", 0, None, None)
        ELSE IF alloc_end > self.upper_limit
             THEN alloc_grow(build, self, mem, aligned_size, grant)
             ELSE alloc_fit(self, mem, alloc_start, alloc_end)

\* ------------------------------------------------- impl GlobalAlloc adapter
\* core::ptr::null_mut()
null_mut == 0

\* BumpAllocator::alloc: Some(start) => start as *mut u8, None => null_mut()
BumpAllocator_alloc(build, self, mem, layout, grant) ==
    LET r == alloc(build, self, mem, layout, grant)
    IN  [inner |-> r, ptr |-> IF r.ret # None THEN r.ret ELSE null_mut]

\* slip: zeroed memory is always taken from freshly granted pages
BumpAllocator_alloc_zeroed_fresh(build, self, mem, layout, grant) ==
    LET r == alloc_grow(build, self, mem,
                        PadToAlign(layout.size, layout.align), grant)
    IN  [inner |-> r, ptr |-> IF r.ret # None THEN r.ret ELSE null_mut]

\* BumpAllocator::alloc_zeroed: self.alloc(layout)
BumpAllocator_alloc_zeroed(build, self, mem, layout, grant) ==
    BumpAllocator_alloc(build, self, mem, layout, grant)

\* slip: a freed block that ends at the cursor is taken back
BumpAllocator_dealloc_rewind(self, ptr, layout) ==
    IF ptr + PadToAlign(layout.size, layout.align) = self.next
    THEN [self EXCEPT !.next = ptr]
    ELSE self

\* BumpAllocator::dealloc: empty body
BumpAllocator_dealloc(self, ptr, layout) == self

\* ------------------------------------------------------------------- state
VARIABLES
    next,          \* InnerAlloc.next
    upper_limit,   \* InnerAlloc.upper_limit
    build,         \* which request_pages the build selected
    mem_pages,     \* wasm32: current size of linear memory, in pages
    last,          \* the most recent call: its request, pre-state and outcome
    allocs,        \* history of the successful allocations, oldest first
    freed,         \* indices into allocs of the blocks handed to dealloc
    rp_size,       \* argument of the most recent required_pages evaluation
    rp_pages       \* its result

vars ==
    <<next, upper_limit, build, mem_pages, last, allocs, freed,
      rp_size, rp_pages>>

NoCall ==
    [op |-> "none", size |-> 0, align |-> 1, padded |-> 0,
     pre_next |-> 0, pre_upper |-> 0, pre_mem |-> 0, ret |-> None,
     ptr |-> null_mut, path |-> "none",
     page_calls |-> 0, pages |-> None, page_ret |-> None]

\* InnerAlloc::new() under either build
Init ==
    /\ next = 0
    /\ upper_limit = 0
    /\ build \in {"test", "wasm32"}
    /\ mem_pages \in (IF build = "test" THEN {0} ELSE 0 .. MaxInitPages)
    /\ last = NoCall
    /\ allocs = <<>>
    /\ freed = {}
    /\ rp_size = None
    /\ rp_pages = None

\* one call of BumpAllocator::alloc or ::alloc_zeroed with a layout of
\* `layouts`; `a` is what the adapter method returns and does
AllocCall(op, layout, a) ==
    LET r == a.inner
        padded == PadToAlign(layout.size, layout.align)
    IN  /\ (r.ret # None) => Len(allocs) < MaxAllocs
        /\ next' = r.next
        /\ upper_limit' = r.upper_limit
        /\ mem_pages' = r.mem
        /\ last' = [op |-> op, size |-> layout.size,
                    align |-> layout.align, padded |-> padded,
                    pre_next |-> next, pre_upper |-> upper_limit,
                    pre_mem |-> mem_pages, ret |-> r.ret, ptr |-> a.ptr,
                    path |-> r.path,
                    page_calls |-> r.page_calls, pages |-> r.pages,
                    page_ret |-> r.page_ret]
        /\ allocs' = IF r.ret = None THEN allocs
                     ELSE Append(allocs,
                            [start |-> r.ret, size |-> padded,
                             pre_next |-> next, pre_upper |-> upper_limit,
                             path |-> r.path, next |-> r.next,
                             upper_limit |-> r.upper_limit])
        /\ UNCHANGED <<build, freed, rp_size, rp_pages>>

\* one call of InnerAlloc::alloc (through BumpAllocator::alloc)
Alloc ==
    \E layout \in Layouts,
       grant \in (IF build = "test" THEN {TRUE} ELSE BOOLEAN) :
        AllocCall("alloc", layout,
            BumpAllocator_alloc(build,
                [next |-> next, upper_limit |-> upper_limit],
                mem_pages, layout, grant))

Next == Alloc

Spec == Init /\ [][Next]_vars

\* ------------------------------------- the whole GlobalAlloc interface
\* the layouts of u8, [u8; PAGE_SIZE - 1] and [u8; 2 * PAGE_SIZE]
CoreLayouts ==
    {l \in Layouts : l.align = 1 /\ l.size \in {1, PAGE_SIZE - 1, 2 * PAGE_SIZE}}

AllocCore ==
    \E layout \in CoreLayouts,
       grant \in (IF build = "test" THEN {TRUE} ELSE BOOLEAN) :
        AllocCall("alloc", layout,
            BumpAllocator_alloc(build,
                [next |-> next, upper_limit |-> upper_limit],
                mem_pages, layout, grant))

AllocZeroed ==
    \E layout \in CoreLayouts,
       grant \in (IF build = "test" THEN {TRUE} ELSE BOOLEAN) :
        AllocCall("alloc_zeroed", layout,
            BumpAllocator_alloc_zeroed(build,
                [next |-> next, upper_limit |-> upper_limit],
                mem_pages, layout, grant))

\* one call of BumpAllocator::dealloc on a block that is still live
Dealloc ==
    \E i \in (1 .. Len(allocs)) \ freed :
        LET layout == [size |-> allocs[i].size, align |-> 1]
            self == BumpAllocator_dealloc(
                        [next |-> next, upper_limit |-> upper_limit],
                        allocs[i].start, layout)
        IN  /\ next' = self.next
            /\ upper_limit' = self.upper_limit
            /\ freed' = freed \cup {i}
            /\ last' = [NoCall EXCEPT
                          !.op = "dealloc", !.size = layout.size,
                          !.padded = layout.size,
                          !.pre_next = next, !.pre_upper = upper_limit,
                          !.pre_mem = mem_pages, !.ptr = allocs[i].start]
            /\ UNCHANGED <<build, mem_pages, allocs, rp_size, rp_pages>>

NextGlobalAlloc == AllocCore \/ AllocZeroed \/ Dealloc

SpecGlobalAlloc == Init /\ [][NextGlobalAlloc]_vars

\* ------------------------------------------- required_pages on its own
\* sizes within MaxProbe of 0, of each page multiple and of usize::MAX
ProbeSizes ==
    {s \in 0 .. USIZE_MAX :
        \/ s % PAGE_SIZE <= MaxProbe
        \/ PAGE_SIZE - (s % PAGE_SIZE) <= MaxProbe
        \/ USIZE_MAX - s <= MaxProbe}

RequiredPages ==
    \E size \in ProbeSizes :
        /\ rp_size' = size
        /\ rp_pages' = required_pages(size)
        /\ UNCHANGED <<next, upper_limit, build, mem_pages, last, allocs,
                       freed>>

NextRequiredPages == RequiredPages

SpecRequiredPages == Init /\ [][NextRequiredPages]_vars

TypeOK ==
    /\ next \in 0 .. USIZE_MAX
    /\ upper_limit \in 0 .. USIZE_MAX
    /\ mem_pages \in 0 .. MaxHostPages
    /\ Len(allocs) <= MaxAllocs

\* ------------------------------------------------------ auxiliary notions
\* ceil(size / PAGE_SIZE), stated without the code's rounding trick
CeilPages(size) ==
    CHOOSE k \in 0 .. MaxHostPages + 1 :
        /\ k * PAGE_SIZE >= size
        /\ \A j \in 0 .. k - 1 : j * PAGE_SIZE < size

\* two half-open intervals [start, start + size) share an address
Overlap(a, b) ==
    /\ a.size > 0
    /\ b.size > 0
    /\ a.start < b.start + b.size
    /\ b.start < a.start + a.size

Called == last.op \in {"alloc", "alloc_zeroed"}

\* the last call did not fit the headroom it found
LastDidNotFit == Called /\ last.pre_next + last.padded > last.pre_upper

StateUntouched == next = last.pre_next /\ upper_limit = last.pre_upper

\* ----------------------------------------------------------------- claims

\* C1: the intervals [start, start + padded_size) of all successful
\* allocations are pairwise disjoint.
C1_Disjoint ==
    \A i, j \in 1 .. Len(allocs) :
        i # j => ~ Overlap(allocs[i], allocs[j])

C1_Witness ==
    /\ Len(allocs) = 3
    /\ \A i \in 1 .. 3 : allocs[i].size > 0
    /\ allocs[2].path = "fit"
    /\ allocs[3].path = "grow"
    /\ allocs[3].pre_next < allocs[3].pre_upper

\* C2 as stated: every successful allocate returns a start address strictly
\* greater than the start address of every earlier successful allocate,
\* requests of padded size 0 included.
C2_StrictlyIncreasing ==
    \A i, j \in 1 .. Len(allocs) :
        i < j => allocs[i].start < allocs[j].start

\* C2 amended: start addresses never decrease, and a start is strictly
\* greater than the start of every earlier allocation of nonzero padded
\* size (each allocation starts at or after the end of every earlier one).
C2_NonDecreasing ==
    \A i, j \in 1 .. Len(allocs) :
        i < j => /\ allocs[i].start <= allocs[j].start
                 /\ allocs[i].size > 0 => allocs[i].start < allocs[j].start

C2_Witness ==
    /\ Len(allocs) = 3
    /\ allocs[1].size > 0
    /\ allocs[2].size = 0
    /\ allocs[3].size = 0
    /\ allocs[2].start = allocs[3].start

\* C3: next <= upper_limit in every reachable state, after a fit, a grow
\* or a failing call alike.
C3_NextWithinLimit == next <= upper_limit

C3_Witness ==
    /\ Called
    /\ last.ret = None
    /\ last.path = "grow"
    /\ 0 < next
    /\ next < upper_limit
    /\ \E i \in 1 .. Len(allocs) : allocs[i].path = "fit"

\* which checked step of the last call overflowed, computed from the call's
\* inputs in unbounded arithmetic
OvfAllocEnd == last.pre_next + last.padded > USIZE_MAX

OvfRequiredPages == last.padded + PAGE_SIZE - 1 > USIZE_MAX

OvfPagesMul == CeilPages(last.padded) * PAGE_SIZE > USIZE_MAX

OvfUpperLimit ==
    last.page_ret + CeilPages(last.padded) * PAGE_SIZE > USIZE_MAX

OvfNext == last.page_ret + last.padded > USIZE_MAX

LastOverflowed ==
    /\ Called
    /\ \/ OvfAllocEnd
       \/ /\ LastDidNotFit
          /\ \/ OvfRequiredPages
             \/ /\ last.page_ret # None
                /\ OvfPagesMul \/ OvfUpperLimit \/ OvfNext

\* C4: a call in which a checked arithmetic step overflows returns failure
\* and leaves next and upper_limit as they were.
C4_OverflowFails ==
    LastOverflowed => last.ret = None /\ StateUntouched

C4_Witness ==
    /\ Called
    /\ ~ OvfAllocEnd
    /\ LastDidNotFit
    /\ last.page_ret # None
    /\ OvfUpperLimit
    /\ next > 0
    /\ last.ret = None

\* the call of scenario A: a (0, 1) request made in the fresh state
ScenarioA ==
    /\ Called
    /\ last.pre_next = 0
    /\ last.pre_upper = 0
    /\ last.size = 0
    /\ last.align = 1

\* C5 as stated: scenario A returns start 0 and leaves upper_limit = 65536
\* and next = 0.
C5_ScenarioA_OnePage ==
    ScenarioA => last.ret = 0 /\ upper_limit = 65536 /\ next = 0

\* C5 amended: scenario A returns start 0 and leaves upper_limit = 0 (no
\* page is requested for a request of padded size 0) and next = 0.
C5_ScenarioA_NoPage ==
    ScenarioA => /\ last.ret = 0
                 /\ upper_limit = 0
                 /\ next = 0
                 /\ last.page_calls = 0

C5_Witness == ScenarioA /\ Len(allocs) = 1

\* C6: a request with padded_size <= upper_limit - next succeeds, returns
\* the old next, advances next by padded_size, leaves upper_limit alone and
\* does not invoke the page source.
C6_FitPath ==
    (Called /\ last.padded <= last.pre_upper - last.pre_next) =>
        /\ last.ret = last.pre_next
        /\ next = last.pre_next + last.padded
        /\ upper_limit = last.pre_upper
        /\ last.page_calls = 0

C6_Witness ==
    /\ Called
    /\ last.padded > 0
    /\ last.pre_next > 0
    /\ last.padded <= last.pre_upper - last.pre_next
    /\ last.ret # None

\* C7: a successful call that did not fit returns the page source's base,
\* sets next = base + padded_size and upper_limit = base + required_pages *
\* PAGE_SIZE; with the test page source upper_limit grows by exactly
\* required_pages * PAGE_SIZE, e.g. a 2-page request from fresh gives start
\* 0 and next = upper_limit = 131072 and a following 1-byte request gives
\* start 131072 and upper_limit 196608.
C7_GrowPath ==
    /\ (LastDidNotFit /\ last.ret # None) =>
          /\ last.page_calls = 1
          /\ last.ret = last.page_ret
          /\ next = last.page_ret + last.padded
          /\ upper_limit = last.page_ret + CeilPages(last.padded) * PAGE_SIZE
          /\ last.pages = CeilPages(last.padded)
          /\ build = "test" =>
                upper_limit =
                    last.pre_upper + CeilPages(last.padded) * PAGE_SIZE
    /\ (build = "test" /\ Len(allocs) >= 1 /\ allocs[1].size = 131072) =>
          /\ allocs[1].start = 0
          /\ allocs[1].next = 131072
          /\ allocs[1].upper_limit = 131072
          /\ (Len(allocs) >= 2 /\ allocs[2].size = 1) =>
                /\ allocs[2].start = 131072
                /\ allocs[2].upper_limit = 196608

C7_Witness ==
    /\ build = "test"
    /\ Len(allocs) = 2
    /\ allocs[1].size = 131072
    /\ allocs[2].size = 1
    /\ LastDidNotFit
    /\ last.ret = 131072

\* C8 as stated: a successful call that did not fit never returns the value
\* next had before the call.
C8_StartNeverOldNext ==
    (LastDidNotFit /\ last.ret # None) => last.ret # last.pre_next

\* C8 amended: a successful call that did not fit returns an address at or
\* above the old upper_limit, so the start differs from the old next
\* whenever the old next was below the old upper_limit (headroom was left).
C8_StartAtOrAboveOldLimit ==
    (LastDidNotFit /\ last.ret # None) =>
        /\ last.ret >= last.pre_upper
        /\ last.pre_next < last.pre_upper => last.ret # last.pre_next

C8_Witness ==
    /\ LastDidNotFit
    /\ last.ret # None
    /\ last.pre_next < last.pre_upper
    /\ last.pre_next > 0

\* C9: after a call that took the grow path, the bytes [old next, old
\* upper_limit) are never handed out: the interval of that call starts at
\* the granted base, and neither it nor any later interval intersects the
\* abandoned bytes or straddles the old upper_limit (e.g. after a 65535
\* byte allocation a (2, 2) request is placed at 65536 with upper_limit
\* 131072 and next 65538).
C9_NoCarryover ==
    /\ \A j \in 1 .. Len(allocs) :
          allocs[j].path = "grow" =>
             \A i \in j .. Len(allocs) :
                /\ ~ Overlap(allocs[i],
                       [start |-> allocs[j].pre_next,
                        size |-> allocs[j].pre_upper - allocs[j].pre_next])
                /\ ~ (/\ allocs[i].start < allocs[j].pre_upper
                      /\ allocs[j].pre_upper < allocs[i].start + allocs[i].size)
    /\ (LastDidNotFit /\ last.ret # None) => last.ret = last.page_ret
    /\ (/\ build = "test"
        /\ Len(allocs) >= 2
        /\ allocs[1].size = 65535
        /\ allocs[2].size = 2) =>
          /\ allocs[1].start = 0
          /\ allocs[2].start = 65536
          /\ allocs[2].upper_limit = 131072
          /\ allocs[2].next = 65538

C9_Witness ==
    /\ build = "test"
    /\ Len(allocs) = 3
    /\ allocs[1].size = 65535
    /\ allocs[2].size = 2
    /\ allocs[2].path = "grow"
    /\ allocs[3].size > 0

\* C10: when the page source returns "no region" the call fails, next and
\* upper_limit are unchanged and the page source was invoked exactly once.
C10_HostExhaustion ==
    (Called /\ last.page_calls > 0 /\ last.page_ret = None) =>
        /\ last.ret = None
        /\ StateUntouched
        /\ last.page_calls = 1

C10_Witness ==
    /\ Called
    /\ last.page_calls = 1
    /\ last.page_ret = None
    /\ last.ret = None
    /\ 0 < next
    /\ next < upper_limit

\* C11: across allocate and dealloc calls, successful or failing, next never
\* decreases (both page sources return a base at or above upper_limit).
C11_NextMonotone == [][next' >= next]_vars

C11_Witness ==
    /\ last.op = "dealloc"
    /\ last.ptr + last.padded = next
    /\ next > PAGE_SIZE
    /\ \E i \in 1 .. Len(allocs) :
          /\ allocs[i].path = "grow"
          /\ allocs[i].pre_next < allocs[i].pre_upper

\* the base of the first run of pages the allocator was granted
HasGrown == \E i \in 1 .. Len(allocs) : allocs[i].path = "grow"

FirstBase ==
    LET first == CHOOSE i \in 1 .. Len(allocs) :
                    /\ allocs[i].path = "grow"
                    /\ \A j \in 1 .. i - 1 : allocs[j].path # "grow"
    IN  allocs[first].start

\* C12: upper_limit never decreases, every change is a positive whole
\* multiple of PAGE_SIZE and happens only in an allocate call that takes the
\* grow path and succeeds; upper_limit is a whole number of pages above the
\* first granted base.
C12_LimitGrowsByPages ==
    /\ [][upper_limit' # upper_limit =>
            /\ upper_limit' > upper_limit
            /\ (upper_limit' - upper_limit) % PAGE_SIZE = 0
            /\ last'.op \in {"alloc", "alloc_zeroed"}
            /\ last'.pre_next + last'.padded > last'.pre_upper
            /\ last'.ret # None]_vars
    /\ [](IF HasGrown
          THEN /\ upper_limit > FirstBase
               /\ (upper_limit - FirstBase) % PAGE_SIZE = 0
          ELSE upper_limit = 0)

C12_Witness ==
    /\ build = "wasm32"
    /\ HasGrown
    /\ FirstBase > 0
    /\ upper_limit >= FirstBase + 2 * PAGE_SIZE
    /\ freed # {}
    /\ last.ret = None
    /\ last.op = "alloc_zeroed"

\* C13: dealloc leaves next and upper_limit unchanged, and no interval
\* returned after a block was handed to dealloc intersects that block.
C13_DeallocNoOp ==
    /\ [][freed' # freed =>
            /\ last'.op = "dealloc"
            /\ next' = next
            /\ upper_limit' = upper_limit
            /\ allocs' = allocs]_vars
    /\ [](\A i \in freed : \A j \in i + 1 .. Len(allocs) :
            ~ Overlap(allocs[i], allocs[j]))

C13_Witness ==
    /\ Called
    /\ last.ret # None
    /\ last.path = "fit"
    /\ Len(allocs) >= 2
    /\ (Len(allocs) - 1) \in freed
    /\ allocs[Len(allocs) - 1].size > 0
    /\ allocs[Len(allocs)].size > 0

\* the run of pages block i was carved from: the one granted by the latest
\* grow-path allocation at or before i
InGrantedRun(i) ==
    \E j \in 1 .. i :
        /\ allocs[j].path = "grow"
        /\ \A k \in j + 1 .. i : allocs[k].path # "grow"
        /\ allocs[j].start <= allocs[i].start
        /\ allocs[i].start + allocs[i].size <= allocs[j].upper_limit

\* Granted pages start zeroed and callers write only inside blocks they were
\* given, so a block is all zero when returned if it lies in a granted run
\* and shares no byte with a block returned before it.
ZeroWhenReturned(i) ==
    allocs[i].size > 0 =>
        /\ InGrantedRun(i)
        /\ \A k \in 1 .. i - 1 : ~ Overlap(allocs[k], allocs[i])

\* what BumpAllocator::alloc does with the request and pre-state of the
\* last call, for some decision of the host
LastAsAlloc(grant) ==
    BumpAllocator_alloc(build,
        [next |-> last.pre_next, upper_limit |-> last.pre_upper],
        last.pre_mem, [size |-> last.size, align |-> last.align], grant)

\* C14: alloc_zeroed returns what alloc returns and changes the state as
\* alloc does, and every block returned by either is all zero when returned.
C14_ZeroedAsAlloc ==
    /\ last.op = "alloc_zeroed" =>
          \E grant \in BOOLEAN :
              /\ LastAsAlloc(grant).ptr = last.ptr
              /\ LastAsAlloc(grant).inner.ret = last.ret
              /\ LastAsAlloc(grant).inner.next = next
              /\ LastAsAlloc(grant).inner.upper_limit = upper_limit
              /\ LastAsAlloc(grant).inner.mem = mem_pages
    /\ \A i \in 1 .. Len(allocs) : ZeroWhenReturned(i)

C14_Witness ==
    /\ last.op = "alloc_zeroed"
    /\ last.ret # None
    /\ last.path = "fit"
    /\ last.padded > 0
    /\ Len(allocs) >= 2
    /\ allocs[Len(allocs) - 1].size > 0
    /\ allocs[Len(allocs) - 1].start + allocs[Len(allocs) - 1].size = last.ret

\* C15: required_pages(size) is ceil(size / PAGE_SIZE) whenever
\* size + PAGE_SIZE - 1 fits the address width (0 for 0, 1 for PAGE_SIZE,
\* 2 for PAGE_SIZE + 1) and is a failure exactly when it does not fit.
C15_RequiredPagesIsCeil ==
    rp_size # None =>
        /\ (rp_pages = None) <=> (rp_size + PAGE_SIZE - 1 > USIZE_MAX)
        /\ rp_pages # None => rp_pages = CeilPages(rp_size)
        /\ rp_size = 0 => rp_pages = 0
        /\ rp_size = PAGE_SIZE => rp_pages = 1
        /\ rp_size = PAGE_SIZE + 1 => rp_pages = 2

C15_Witness == rp_size = PAGE_SIZE + 1 /\ rp_pages = 2

\* padded sizes of the first n successful allocations plus the bytes
\* [old next, old upper_limit) given up at each of their grow steps
RECURSIVE BytesUsed(_)
BytesUsed(n) ==
    IF n = 0 THEN 0
    ELSE BytesUsed(n - 1) + allocs[n].size
         + (IF allocs[n].path = "grow"
            THEN allocs[n].pre_upper - allocs[n].pre_next ELSE 0)

\* C16: with the test page source, after every successful allocate
\* upper_limit is next rounded up to a page boundary and next is the sum of
\* the padded sizes of all successful allocations and of all bytes
\* abandoned at grow steps.
C16_LimitIsNextRoundedUp ==
    (build = "test" /\ Called /\ last.ret # None) =>
        /\ upper_limit = PAGE_SIZE * CeilPages(next)
        /\ next = BytesUsed(Len(allocs))

C16_Witness ==
    /\ build = "test"
    /\ Called
    /\ last.ret # None
    /\ Len(allocs) = 3
    /\ allocs[2].path = "grow"
    /\ allocs[2].pre_next < allocs[2].pre_upper
    /\ allocs[3].path = "fit"
    /\ allocs[3].size > 0

\* C17: whenever allocate invokes request_pages the page count passed is at
\* least 1, and a request of padded size 0 never invokes the page source.
C17_AtLeastOnePage ==
    Called =>
        /\ last.page_calls > 0 => (last.pages # None /\ last.pages >= 1)
        /\ last.padded = 0 => last.page_calls = 0

C17_Witness ==
    /\ Called
    /\ last.padded = 0
    /\ last.pre_next = last.pre_upper
    /\ last.pre_upper > 0
    /\ last.page_calls = 0
    /\ \E i \in 1 .. Len(allocs) : allocs[i].path = "grow"

\* C18: the unused headroom upper_limit - next is always strictly less than
\* PAGE_SIZE, and so is the remainder abandoned at every grow step.
C18_HeadroomBelowPage ==
    /\ upper_limit - next < PAGE_SIZE
    /\ \A i \in 1 .. Len(allocs) :
          allocs[i].path = "grow" =>
              allocs[i].pre_upper - allocs[i].pre_next < PAGE_SIZE

C18_Witness ==
    /\ Len(allocs) >= 2
    /\ allocs[2].path = "grow"
    /\ allocs[2].pre_upper - allocs[2].pre_next = PAGE_SIZE - 1
    /\ allocs[2].size = 2 * PAGE_SIZE
    /\ upper_limit = next

\* C19: the adapter returns the null address if and only if the core
\* allocate call failed (stated for the requests GlobalAlloc admits, those
\* of nonzero size).
C19_NullIffFailure ==
    (Called /\ last.padded > 0) =>
        ((last.ptr = null_mut) <=> (last.ret = None))

\* C20: if the host growth primitive succeeded during an allocate call, the
\* call returns success and upper_limit covers the granted run.
C20_GrantedPagesAccounted ==
    (Called /\ mem_pages > last.pre_mem) =>
        /\ last.ret # None
        /\ upper_limit >= mem_pages * PAGE_SIZE

====
